---- MODULE Spec2Model ----
(***************************************************************************)
(* A model of module_reloader.py: the registry of loaded modules           *)
(* (loaded_modules), the import finder that fills it                       *)
(* (CustomImportFinder.find_spec / track_module), the staleness scan       *)
(* (get_stale_modules) and the reload functions (reload_module,            *)
(* reload_stale_modules), together with the parts of the interpreter they  *)
(* call: sys.modules, sys.meta_path, importlib.reload, time.time() and     *)
(* os.path.getmtime.                                                       *)
(*                                                                         *)
(* Time is an integer clock `now`; a file written at clock value t gets    *)
(* mtime t.  Python's None is the string "None".                           *)
(***************************************************************************)
EXTENDS Integers, Sequences, FiniteSets, TLC

VARIABLES
    now,             \* the value time.time() returns
    debug,           \* __debug__: TRUE unless the interpreter runs with -O
    fs,              \* the file system: path -> [exists, mtime]
    meta_path,       \* sys.meta_path: sequence of finders
    sys_modules,     \* the names that have an entry in sys.modules
    module_file,     \* name -> __file__ of sys.modules[name]
    loaded_modules,  \* the registry: insertion-ordered dict name -> LoadedModuleInfo
    pc,              \* position of the main thread: "idle", "refresh" or "batch"
    cur,             \* the reload_module call in progress: [name, was_stale]
    batch,           \* reload_stale_modules in progress: [active, todo, stale, done]
    ret,             \* outcome of the call that returned or raised in the last step
    th,              \* the worker threads: thread -> [pc, spec, name, t, ref, calls, last]
    gen,             \* name -> how many LoadedModuleInfo objects were stored under it
    scan,            \* a thread inside get_stale_modules: [pc, used, i, val, exc]
    view             \* what a caller of get_loaded_modules holds: [kind, at_call]

vars == <<now, debug, fs, meta_path, sys_modules, module_file, loaded_modules,
          pc, cur, batch, ret, th, gen, scan, view>>

\* the state of the worker threads, which the main thread's calls leave alone
workers == <<th, gen>>
\* the state the worker threads leave alone
main == <<debug, fs, meta_path, sys_modules, module_file, pc, cur, batch, ret>>
\* the scanning thread and the value get_loaded_modules returned
aside == <<scan, view>>

---------------------------------------------------------------------------
(* Bounds and the fixed universe of the model *)

MaxTime == 2
\* calls each worker thread makes at most
MaxCalls == 2

Threads == {"T1", "T2"}

None == "None"
CIF == "CustomImportFinder"

\* A and B are source modules, N is a namespace package (its spec has no
\* origin).  A name no finder resolves is a source module whose file is gone.
Names == {"A", "B", "N"}
Paths == {"a.py", "b.py"}

\* The finders behind the interceptor: L is a legacy finder without a
\* find_spec attribute, F1 and F2 are ordinary finders.
InitialMetaPath == <<CIF, "L", "F1", "F2">>

NoSpec == [name |-> None, origin |-> None, loader |-> None]

FinderTable(finder, fullname) ==
    CASE finder = "F1" /\ fullname = "A" -> [name |-> "A", origin |-> "a.py", loader |-> "F1"]
      [] finder = "F1" /\ fullname = "N" -> [name |-> "N", origin |-> None, loader |-> "F1"]
      [] finder = "F2" /\ fullname = "A" -> [name |-> "A", origin |-> "a.py", loader |-> "F2"]
      [] finder = "F2" /\ fullname = "B" -> [name |-> "B", origin |-> "b.py", loader |-> "F2"]
      [] finder = "L"  /\ fullname = "B" -> [name |-> "B", origin |-> "b.py", loader |-> "L"]
      [] OTHER -> NoSpec

\* finder.find_spec(fullname, path, target) of a finder other than the
\* interceptor: a source module is found only while its file exists.
FinderFind(finder, fullname, files) ==
    LET s == FinderTable(finder, fullname) IN
    IF s # NoSpec /\ s.origin \in Paths /\ ~files[s.origin].exists THEN NoSpec ELSE s

\* hasattr(finder, "find_spec")
HasFindSpec(finder) == finder # "L"

---------------------------------------------------------------------------
(* The dict loaded_modules: a sequence of [key, val] in insertion order *)

HasKey(d, k) == \E i \in DOMAIN d : d[i].key = k
IndexOf(d, k) == CHOOSE i \in DOMAIN d : d[i].key = k
GetItem(d, k) == d[IndexOf(d, k)].val
Keys(d) == {d[i].key : i \in DOMAIN d}

\* a store that adds an entry whether or not the key is present
SetItemAppend(d, k, v) == Append(d, [key |-> k, val |-> v])

\* d[k] = v
SetItem(d, k, v) ==
    IF HasKey(d, k)
    THEN [d EXCEPT ![IndexOf(d, k)].val = v]
    ELSE Append(d, [key |-> k, val |-> v])

LoadedModuleInfo(name, origin, t) ==
    [module_name |-> name, path |-> origin, load_time |-> t]

Range(s) == {s[i] : i \in DOMAIN s}

---------------------------------------------------------------------------
(* track_module, update_module_load_time *)

\* track_module without the assert of line 26: a spec without origin is stored
track_module_unchecked(spec, lm, t, dbg) ==
    IF ~HasKey(lm, spec.name)
    THEN [exc |-> "ok",
          lm  |-> SetItem(lm, spec.name, LoadedModuleInfo(spec.name, spec.origin, t))]
    ELSE [exc |-> "ok", lm |-> lm]

\* track_module without the test of line 25: every call stores a new record
track_module_overwrite(spec, lm, t, dbg) ==
    IF dbg /\ spec.origin = None
    THEN [exc |-> "AssertionError", lm |-> lm]
    ELSE [exc |-> "ok",
          lm  |-> SetItem(lm, spec.name, LoadedModuleInfo(spec.name, spec.origin, t))]

\* track_module(spec) at clock t on registry lm: the registry afterwards and
\* the exception raised ("ok" when none).
track_module(spec, lm, t, dbg) ==
    IF ~HasKey(lm, spec.name)
    THEN IF dbg /\ spec.origin = None
         THEN [exc |-> "AssertionError", lm |-> lm]
         ELSE [exc |-> "ok",
               lm  |-> SetItem(lm, spec.name, LoadedModuleInfo(spec.name, spec.origin, t))]
    ELSE [exc |-> "ok", lm |-> lm]

\* update_module_load_time that writes the epoch, not the clock
update_module_load_time_epoch(module_name, lm, t) ==
    IF HasKey(lm, module_name)
    THEN [lm EXCEPT ![IndexOf(lm, module_name)].val.load_time = 0]
    ELSE lm

\* update_module_load_time that leaves the load time as it is
update_module_load_time_skip(module_name, lm, t) == lm

update_module_load_time(module_name, lm, t) ==
    IF HasKey(lm, module_name)
    THEN [lm EXCEPT ![IndexOf(lm, module_name)].val.load_time = t]
    ELSE lm

---------------------------------------------------------------------------
(* CustomImportFinder.find_spec *)

\* The loop over sys.meta_path[1:].  A finder in that slice that is the
\* interceptor itself calls this same method with the same arguments and
\* the same state: the recursion never ends and Python raises RecursionError.
RECURSIVE ScanChain(_, _, _, _, _, _)
ScanChain(chain, fullname, lm, t, dbg, files) ==
    IF chain = <<>> THEN [exc |-> "ok", spec |-> NoSpec, lm |-> lm]
    ELSE LET finder == Head(chain) IN
         IF ~HasFindSpec(finder)
         THEN ScanChain(Tail(chain), fullname, lm, t, dbg, files)
         ELSE IF finder = CIF
         THEN [exc |-> "RecursionError", spec |-> NoSpec, lm |-> lm]
         ELSE LET spec == FinderFind(finder, fullname, files) IN
              IF spec # NoSpec
              THEN LET tr == track_module(spec, lm, t, dbg) IN
                   [exc  |-> tr.exc,
                    spec |-> IF tr.exc = "ok" THEN spec ELSE NoSpec,
                    lm   |-> tr.lm]
              ELSE ScanChain(Tail(chain), fullname, lm, t, dbg, files)

\* What the finders of the chain answer by themselves: the spec of the first
\* finder, in order, that has a find_spec and finds the name.
RECURSIVE Resolve(_, _, _)
Resolve(chain, fullname, files) ==
    IF chain = <<>> THEN NoSpec
    ELSE IF HasFindSpec(Head(chain)) /\ Head(chain) # CIF
            /\ FinderFind(Head(chain), fullname, files) # NoSpec
    THEN FinderFind(Head(chain), fullname, files)
    ELSE Resolve(Tail(chain), fullname, files)

find_spec(fullname, mp, lm, t, dbg, files) ==
    ScanChain(Tail(mp), fullname, lm, t, dbg, files)

---------------------------------------------------------------------------
(* get_stale_modules *)

\* the comparison of line 56 with >= for >
IsNewerOrEqual(mod_time, load_time) == mod_time >= load_time

\* mod_time > info.load_time
IsNewer(mod_time, load_time) == mod_time > load_time

\* The loop over loaded_modules.items(), from entry i on, with the list
\* built so far.  sys.modules[name] raises KeyError for a name without a
\* handle, os.path.getmtime raises FileNotFoundError for a missing file.
RECURSIVE StaleLoop(_, _, _, _, _, _)
StaleLoop(lm, i, stale_modules, sm, mf, files) ==
    IF i > Len(lm) THEN [exc |-> "ok", val |-> stale_modules]
    ELSE LET module_name == lm[i].key
             info == lm[i].val
         IN  IF module_name \notin sm
             THEN [exc |-> "KeyError", val |-> <<>>]
             ELSE LET file == mf[module_name] IN
                  IF file = None
                  THEN StaleLoop(lm, i + 1, stale_modules, sm, mf, files)
                  ELSE IF ~files[file].exists
                  THEN [exc |-> "FileNotFoundError", val |-> <<>>]
                  ELSE IF IsNewer(files[file].mtime, info.load_time)
                  THEN StaleLoop(lm, i + 1, Append(stale_modules, module_name), sm, mf, files)
                  ELSE StaleLoop(lm, i + 1, stale_modules, sm, mf, files)

get_stale_modules(lm, sm, mf, files) == StaleLoop(lm, 1, <<>>, sm, mf, files)

---------------------------------------------------------------------------
(* The import machinery: what `import name` and importlib.reload do to find *)
(* a spec.  Each finder of sys.meta_path is asked in order.                 *)

RECURSIVE MachineryFind(_, _, _, _, _, _, _)
MachineryFind(chain, fullname, mp, lm, t, dbg, files) ==
    IF chain = <<>> THEN [exc |-> "ok", spec |-> NoSpec, lm |-> lm]
    ELSE LET finder == Head(chain) IN
         IF ~HasFindSpec(finder)
         THEN MachineryFind(Tail(chain), fullname, mp, lm, t, dbg, files)
         ELSE IF finder = CIF
         THEN LET r == find_spec(fullname, mp, lm, t, dbg, files) IN
              IF r.exc # "ok" \/ r.spec # NoSpec THEN r
              ELSE MachineryFind(Tail(chain), fullname, mp, r.lm, t, dbg, files)
         ELSE LET spec == FinderFind(finder, fullname, files) IN
              IF spec # NoSpec THEN [exc |-> "ok", spec |-> spec, lm |-> lm]
              ELSE MachineryFind(Tail(chain), fullname, mp, lm, t, dbg, files)

---------------------------------------------------------------------------
(* Initial state: the module has just been imported (line 78 has run), by  *)
(* an interpreter started without -O, so that assert statements execute.   *)
(* Module B may have been imported before the finder was installed: it is  *)
(* then in sys.modules without an entry in the registry.                   *)

\* A returned or raised call: op(arg) ended with exception exc ("ok" when it
\* returned); val is a returned list, spec a returned spec, ran tells whether
\* importlib.reload ran to its end, was_stale whether arg was stale when the
\* call began, done lists the modules a batch has reloaded.  exec_at is the
\* clock value at which the module's code finished executing and unseen tells
\* whether its file was written after that and before the call returned
\* (both are set by import and reload_module only).
Outcome(op, arg, exc, val, spec, ran, was_stale, done) ==
    [op |-> op, arg |-> arg, exc |-> exc, val |-> val, spec |-> spec,
     ran |-> ran, was_stale |-> was_stale, done |-> done,
     exec_at |-> 0, unseen |-> FALSE]

NoRet == Outcome("none", None, "ok", <<>>, NoSpec, FALSE, FALSE, <<>>)
NoCur == [name |-> None, was_stale |-> FALSE, exec_at |-> 0, modified |-> FALSE]
NoBatch == [active |-> FALSE, todo |-> <<>>, stale |-> <<>>, done |-> <<>>]

NoLast == [op |-> "none", name |-> None, exc |-> "ok"]
IdleThread(calls, last) ==
    [pc |-> "idle", spec |-> NoSpec, name |-> None, t |-> 0, ref |-> 0,
     calls |-> calls, last |-> last]

NoScan == [pc |-> "idle", used |-> 0, i |-> 0, val |-> <<>>, exc |-> "ok"]
NoView == [kind |-> "none", at_call |-> <<>>]

Init ==
    /\ now = 0
    /\ debug = TRUE
    /\ fs = [p \in Paths |-> [exists |-> TRUE, mtime |-> 0]]
    /\ meta_path = InitialMetaPath
    /\ sys_modules \in {{}, {"B"}}
    /\ module_file = [n \in Names |-> IF n \in sys_modules THEN "b.py" ELSE None]
    /\ loaded_modules = <<>>
    /\ pc = "idle"
    /\ cur = NoCur
    /\ batch = NoBatch
    /\ ret = NoRet
    /\ th = [t \in Threads |-> IdleThread(0, NoLast)]
    /\ gen = [n \in Names |-> 0]
    /\ scan = NoScan
    /\ view = NoView

---------------------------------------------------------------------------
(* The environment: the clock, the files, sys.modules *)

Tick ==
    /\ now < MaxTime
    /\ now' = now + 1
    /\ ret' = NoRet
    /\ UNCHANGED workers
    /\ UNCHANGED aside
    /\ UNCHANGED <<debug, fs, meta_path, sys_modules, module_file, loaded_modules,
                   pc, cur, batch>>

\* A write to the file (creating it when it is missing) stamps it with the clock.
\* A write that falls between lines 46 and 47 of a running reload_module, to
\* the file of the module being reloaded, is noted in cur.
ModifyFile(p) ==
    /\ fs' = [fs EXCEPT ![p] = [exists |-> TRUE, mtime |-> now]]
    /\ cur' = IF pc = "refresh" /\ module_file[cur.name] = p
              THEN [cur EXCEPT !.modified = TRUE]
              ELSE cur
    /\ ret' = NoRet
    /\ UNCHANGED workers
    /\ UNCHANGED aside
    /\ UNCHANGED <<now, debug, meta_path, sys_modules, module_file, loaded_modules,
                   pc, batch>>

DeleteFile(p) ==
    /\ fs[p].exists
    /\ fs' = [fs EXCEPT ![p] = [exists |-> FALSE, mtime |-> 0]]
    /\ ret' = NoRet
    /\ UNCHANGED workers
    /\ UNCHANGED aside
    /\ UNCHANGED <<now, debug, meta_path, sys_modules, module_file, loaded_modules,
                   pc, cur, batch>>

\* del sys.modules[name], by code outside the reloader
Unload(name) ==
    /\ name \in sys_modules
    /\ sys_modules' = sys_modules \ {name}
    /\ module_file' = [module_file EXCEPT ![name] = None]
    /\ ret' = NoRet
    /\ UNCHANGED workers
    /\ UNCHANGED aside
    /\ UNCHANGED <<now, debug, fs, meta_path, loaded_modules, pc, cur, batch>>

---------------------------------------------------------------------------
(* Calls of the main thread *)

IsStale(name, lm, sm, mf, files) == name \in Range(get_stale_modules(lm, sm, mf, files).val)

\* `import name` of a module that is not in sys.modules: find the spec, then
\* create the module and execute it; ok tells whether its code runs without
\* raising.  A module whose execution raises is removed from sys.modules.
Import(name, ok) ==
    /\ pc = "idle"
    /\ name \notin sys_modules
    /\ LET r == MachineryFind(meta_path, name, meta_path, loaded_modules, now, debug, fs)
           exc == IF r.exc # "ok" THEN r.exc
                  ELSE IF r.spec = NoSpec THEN "ModuleNotFoundError"
                  ELSE IF ~ok THEN "ExecError" ELSE "ok"
       IN  /\ loaded_modules' = r.lm
           /\ sys_modules' = IF exc = "ok" THEN sys_modules \cup {name} ELSE sys_modules
           /\ module_file' = IF exc = "ok" THEN [module_file EXCEPT ![name] = r.spec.origin]
                             ELSE module_file
           /\ ret' = [Outcome("import", name, exc, <<>>, r.spec, exc = "ok", FALSE, <<>>)
                         EXCEPT !.exec_at = now]
    /\ UNCHANGED workers
    /\ UNCHANGED aside
    /\ UNCHANGED <<now, debug, fs, meta_path, pc, cur, batch>>

\* CustomImportFinder().find_spec(fullname, None), called directly
\* (importlib.util.find_spec does this)
FindSpec(fullname) ==
    /\ pc = "idle"
    /\ LET r == find_spec(fullname, meta_path, loaded_modules, now, debug, fs) IN
       /\ loaded_modules' = r.lm
       /\ ret' = Outcome("find_spec", fullname, r.exc, <<>>, r.spec, FALSE, FALSE, <<>>)
    /\ UNCHANGED workers
    /\ UNCHANGED aside
    /\ UNCHANGED <<now, debug, fs, meta_path, sys_modules, module_file, pc, cur, batch>>

UpdateModuleLoadTime(module_name) ==
    /\ pc = "idle"
    /\ loaded_modules' = update_module_load_time(module_name, loaded_modules, now)
    /\ ret' = Outcome("update_module_load_time", module_name, "ok", <<>>, NoSpec,
                      FALSE, FALSE, <<>>)
    /\ UNCHANGED workers
    /\ UNCHANGED aside
    /\ UNCHANGED <<now, debug, fs, meta_path, sys_modules, module_file, pc, cur, batch>>

\* a scan that records what it found: the load time of each module it
\* reports is moved up to the mtime it has seen
GetStaleModulesMarking ==
    /\ pc = "idle"
    /\ LET r == get_stale_modules(loaded_modules, sys_modules, module_file, fs) IN
       /\ ret' = Outcome("get_stale_modules", None, r.exc, r.val, NoSpec, FALSE, FALSE, <<>>)
       /\ loaded_modules' =
             [i \in DOMAIN loaded_modules |->
                 IF loaded_modules[i].key \in Range(r.val)
                 THEN [loaded_modules[i] EXCEPT
                          !.val.load_time = fs[module_file[loaded_modules[i].key]].mtime]
                 ELSE loaded_modules[i]]
    /\ UNCHANGED workers
    /\ UNCHANGED aside
    /\ UNCHANGED <<now, debug, fs, meta_path, sys_modules, module_file, pc, cur, batch>>

GetStaleModules ==
    /\ pc = "idle"
    /\ LET r == get_stale_modules(loaded_modules, sys_modules, module_file, fs) IN
       ret' = Outcome("get_stale_modules", None, r.exc, r.val, NoSpec, FALSE, FALSE, <<>>)
    /\ UNCHANGED workers
    /\ UNCHANGED aside
    /\ UNCHANGED <<now, debug, fs, meta_path, sys_modules, module_file, loaded_modules,
                   pc, cur, batch>>

\* reload_module without the test of line 45: the load time of a name that
\* has no handle is refreshed all the same
ReloadOutcomeUnguarded(module_name, ok) ==
    IF module_name \notin sys_modules
    THEN [exc |-> "ok", ran |-> FALSE,
          lm |-> update_module_load_time(module_name, loaded_modules, now), spec |-> NoSpec]
    ELSE LET r == MachineryFind(meta_path, module_name, meta_path, loaded_modules,
                                now, debug, fs)
         IN  IF r.exc # "ok"
             THEN [exc |-> r.exc, ran |-> FALSE, lm |-> r.lm, spec |-> NoSpec]
             ELSE IF r.spec = NoSpec
             THEN [exc |-> "ModuleNotFoundError", ran |-> FALSE, lm |-> r.lm, spec |-> NoSpec]
             ELSE IF ~ok
             THEN [exc |-> "ExecError", ran |-> FALSE, lm |-> r.lm, spec |-> r.spec]
             ELSE [exc |-> "ok", ran |-> TRUE, lm |-> r.lm, spec |-> r.spec]

\* reload_module with update_module_load_time in a finally clause: the load
\* time is refreshed also when the re-execution raises
ReloadOutcomeFinally(module_name, ok) ==
    IF module_name \notin sys_modules
    THEN [exc |-> "ok", ran |-> FALSE, lm |-> loaded_modules, spec |-> NoSpec]
    ELSE LET r == MachineryFind(meta_path, module_name, meta_path, loaded_modules,
                                now, debug, fs)
         IN  IF r.exc # "ok"
             THEN [exc |-> r.exc, ran |-> FALSE, lm |-> r.lm, spec |-> NoSpec]
             ELSE IF r.spec = NoSpec
             THEN [exc |-> "ModuleNotFoundError", ran |-> FALSE, lm |-> r.lm, spec |-> NoSpec]
             ELSE IF ~ok
             THEN [exc |-> "ExecError", ran |-> FALSE,
                   lm |-> update_module_load_time(module_name, r.lm, now), spec |-> r.spec]
             ELSE [exc |-> "ok", ran |-> TRUE, lm |-> r.lm, spec |-> r.spec]

\* reload_module up to the return of importlib.reload: nothing happens for a
\* name without a handle; otherwise the spec is found again through
\* sys.meta_path and the module's code is executed again (ok: without raising).
ReloadOutcome(module_name, ok) ==
    IF module_name \notin sys_modules
    THEN [exc |-> "ok", ran |-> FALSE, lm |-> loaded_modules, spec |-> NoSpec]
    ELSE LET r == MachineryFind(meta_path, module_name, meta_path, loaded_modules,
                                now, debug, fs)
         IN  IF r.exc # "ok"
             THEN [exc |-> r.exc, ran |-> FALSE, lm |-> r.lm, spec |-> NoSpec]
             ELSE IF r.spec = NoSpec
             THEN [exc |-> "ModuleNotFoundError", ran |-> FALSE, lm |-> r.lm, spec |-> NoSpec]
             ELSE IF ~ok
             THEN [exc |-> "ExecError", ran |-> FALSE, lm |-> r.lm, spec |-> r.spec]
             ELSE [exc |-> "ok", ran |-> TRUE, lm |-> r.lm, spec |-> r.spec]

\* reload_module(module_name): lines 45-46
ReloadModule(module_name, ok) ==
    /\ pc = "idle"
    /\ LET o == ReloadOutcome(module_name, ok)
           was == IsStale(module_name, loaded_modules, sys_modules, module_file, fs)
       IN  /\ loaded_modules' = o.lm
           /\ IF o.ran
              THEN /\ pc' = "refresh"
                   /\ cur' = [name |-> module_name, was_stale |-> was,
                              exec_at |-> now, modified |-> FALSE]
                   /\ module_file' = [module_file EXCEPT ![module_name] = o.spec.origin]
                   /\ ret' = NoRet
              ELSE /\ pc' = "idle"
                   /\ cur' = cur
                   /\ module_file' = module_file
                   /\ ret' = Outcome("reload_module", module_name, o.exc, <<>>, o.spec,
                                     FALSE, was, <<>>)
    /\ UNCHANGED workers
    /\ UNCHANGED aside
    /\ UNCHANGED <<now, debug, fs, meta_path, sys_modules, batch>>

\* reload_module, line 47: update_module_load_time(module_name), then return
\* to the caller (the loop of reload_stale_modules, or the main program)
ReloadRefresh ==
    /\ pc = "refresh"
    /\ loaded_modules' = update_module_load_time(cur.name, loaded_modules, now)
    /\ cur' = NoCur
    /\ IF batch.active
       THEN /\ pc' = "batch"
            /\ batch' = [batch EXCEPT !.done = Append(@, cur.name)]
            /\ ret' = NoRet
       ELSE /\ pc' = "idle"
            /\ batch' = batch
            /\ ret' = [Outcome("reload_module", cur.name, "ok", <<>>, NoSpec,
                               TRUE, cur.was_stale, <<>>)
                          EXCEPT !.exec_at = cur.exec_at, !.unseen = cur.modified]
    /\ UNCHANGED workers
    /\ UNCHANGED aside
    /\ UNCHANGED <<now, debug, fs, meta_path, sys_modules, module_file>>

\* reload_stale_modules(): the call of get_stale_modules() that the for
\* statement evaluates once
ReloadStaleModules ==
    /\ pc = "idle"
    /\ LET r == get_stale_modules(loaded_modules, sys_modules, module_file, fs) IN
       IF r.exc # "ok"
       THEN /\ ret' = Outcome("reload_stale_modules", None, r.exc, <<>>, NoSpec,
                              FALSE, FALSE, <<>>)
            /\ UNCHANGED <<pc, batch>>
       ELSE /\ pc' = "batch"
            /\ batch' = [active |-> TRUE, todo |-> r.val, stale |-> r.val, done |-> <<>>]
            /\ ret' = NoRet
    /\ UNCHANGED workers
    /\ UNCHANGED aside
    /\ UNCHANGED <<now, debug, fs, meta_path, sys_modules, module_file, loaded_modules, cur>>

\* reload_stale_modules(): one iteration of the loop, up to the return of
\* importlib.reload; an exception leaves the loop and the function
BatchStep(ok) ==
    /\ pc = "batch"
    /\ IF batch.todo = <<>>
       THEN /\ pc' = "idle"
            /\ batch' = NoBatch
            /\ ret' = Outcome("reload_stale_modules", None, "ok", batch.stale, NoSpec,
                              FALSE, FALSE, batch.done)
            /\ UNCHANGED <<loaded_modules, module_file, cur>>
       ELSE LET module_name == Head(batch.todo)
                o == ReloadOutcome(module_name, ok)
            IN  /\ loaded_modules' = o.lm
                /\ IF o.ran
                   THEN /\ pc' = "refresh"
                        /\ cur' = [name |-> module_name, was_stale |-> TRUE,
                                   exec_at |-> now, modified |-> FALSE]
                        /\ module_file' = [module_file EXCEPT ![module_name] = o.spec.origin]
                        /\ batch' = [batch EXCEPT !.todo = Tail(@)]
                        /\ ret' = NoRet
                   ELSE IF o.exc = "ok"
                   THEN /\ pc' = "batch"
                        /\ batch' = [batch EXCEPT !.todo = Tail(@)]
                        /\ ret' = NoRet
                        /\ UNCHANGED <<cur, module_file>>
                   ELSE /\ pc' = "idle"
                        /\ batch' = NoBatch
                        /\ ret' = Outcome("reload_stale_modules", module_name, o.exc,
                                          batch.stale, NoSpec, FALSE, FALSE, batch.done)
                        /\ UNCHANGED <<cur, module_file>>
    /\ UNCHANGED workers
    /\ UNCHANGED aside
    /\ UNCHANGED <<now, debug, fs, meta_path, sys_modules>>

Next ==
    \/ Tick
    \/ \E p \in Paths : ModifyFile(p)
    \/ \E p \in Paths : DeleteFile(p)
    \/ \E n \in Names : Unload(n)
    \/ \E n \in Names, ok \in BOOLEAN : Import(n, ok)
    \/ \E n \in Names : FindSpec(n)
    \/ \E n \in Names : UpdateModuleLoadTime(n)
    \/ GetStaleModules
    \/ \E n \in Names, ok \in BOOLEAN : ReloadModule(n, ok)
    \/ ReloadRefresh
    \/ ReloadStaleModules
    \/ \E ok \in BOOLEAN : BatchStep(ok)

Spec == Init /\ [][Next]_vars

---------------------------------------------------------------------------
(* A caller that keeps what get_loaded_modules() returned *)

\* get_loaded_modules(), lines 40-41: `return loaded_modules` hands out the
\* dict object itself.  kind "ref" says that the value is that object;
\* at_call is its content at the time of the call.
get_loaded_modules(lm) == [kind |-> "ref", at_call |-> lm]

\* what a caller holding v reads through it in the current state
Seen(v) == IF v.kind = "ref" THEN loaded_modules ELSE v.at_call

GetLoadedModules ==
    /\ pc = "idle"
    /\ view' = get_loaded_modules(loaded_modules)
    /\ ret' = Outcome("get_loaded_modules", None, "ok", <<>>, NoSpec, FALSE, FALSE, <<>>)
    /\ UNCHANGED workers
    /\ UNCHANGED scan
    /\ UNCHANGED <<now, debug, fs, meta_path, sys_modules, module_file, loaded_modules,
                   pc, cur, batch>>

ViewNext ==
    \/ Tick
    \/ GetLoadedModules
    \/ \E n \in Names : FindSpec(n)
    \/ \E n \in Names : UpdateModuleLoadTime(n)

ViewSpec == Init /\ [][ViewNext]_vars

---------------------------------------------------------------------------
(* Another package installs its own finder after this module was imported *)

\* sys.meta_path.insert(0, G()), as line 78 does for the interceptor: G is a
\* finder with a find_spec that finds none of the names.
InsertAhead ==
    /\ "G" \notin Range(meta_path)
    /\ meta_path' = <<"G">> \o meta_path
    /\ ret' = NoRet
    /\ UNCHANGED workers
    /\ UNCHANGED aside
    /\ UNCHANGED <<now, debug, fs, sys_modules, module_file, loaded_modules, pc, cur, batch>>

ChainNext ==
    \/ InsertAhead
    \/ Tick
    \/ \E p \in Paths : DeleteFile(p)
    \/ \E n \in Names : FindSpec(n)
    \/ \E n \in Names, ok \in BOOLEAN : Import(n, ok)
    \/ \E n \in Names : Unload(n)

ChainSpec == Init /\ [][ChainNext]_vars

---------------------------------------------------------------------------
(* Worker threads that call track_module and update_module_load_time       *)
(* concurrently.  A thread can be preempted between any two of its steps;  *)
(* each step is one access to the shared dict or to the clock.             *)

SetThread(t, r) == th' = [th EXCEPT ![t] = r]
Returned(t, op, name, exc) ==
    SetThread(t, IdleThread(th[t].calls, [op |-> op, name |-> name, exc |-> exc]))

\* a thread enters track_module(spec)
TBegin(t, finder, fullname) ==
    /\ th[t].pc = "idle"
    /\ th[t].calls < MaxCalls
    /\ FinderTable(finder, fullname) # NoSpec
    /\ SetThread(t, [th[t] EXCEPT !.pc = "t_check", !.calls = @ + 1,
                                  !.spec = FinderTable(finder, fullname)])
    /\ UNCHANGED <<now, loaded_modules, gen>>
    /\ UNCHANGED main
    /\ UNCHANGED aside

\* lines 25-26: the membership test, then the assert
TCheck(t) ==
    /\ th[t].pc = "t_check"
    /\ IF HasKey(loaded_modules, th[t].spec.name)
       THEN Returned(t, "track_module", th[t].spec.name, "ok")
       ELSE IF debug /\ th[t].spec.origin = None
       THEN Returned(t, "track_module", th[t].spec.name, "AssertionError")
       ELSE SetThread(t, [th[t] EXCEPT !.pc = "t_build"])
    /\ UNCHANGED <<now, loaded_modules, gen>>
    /\ UNCHANGED main
    /\ UNCHANGED aside

\* lines 29-31: time.time() is evaluated and the LoadedModuleInfo built
TBuild(t) ==
    /\ th[t].pc = "t_build"
    /\ SetThread(t, [th[t] EXCEPT !.pc = "t_store", !.t = now])
    /\ UNCHANGED <<now, loaded_modules, gen>>
    /\ UNCHANGED main
    /\ UNCHANGED aside

\* line 29: loaded_modules[spec.name] = <the object built>
TStore(t) ==
    /\ th[t].pc = "t_store"
    /\ loaded_modules' = SetItem(loaded_modules, th[t].spec.name,
                                 LoadedModuleInfo(th[t].spec.name, th[t].spec.origin, th[t].t))
    /\ gen' = [gen EXCEPT ![th[t].spec.name] = @ + 1]
    /\ Returned(t, "track_module", th[t].spec.name, "ok")
    /\ UNCHANGED now
    /\ UNCHANGED main
    /\ UNCHANGED aside

\* a thread enters update_module_load_time(module_name)
UBegin(t, module_name) ==
    /\ th[t].pc = "idle"
    /\ th[t].calls < MaxCalls
    /\ SetThread(t, [th[t] EXCEPT !.pc = "u_check", !.calls = @ + 1, !.name = module_name])
    /\ UNCHANGED <<now, loaded_modules, gen>>
    /\ UNCHANGED main
    /\ UNCHANGED aside

\* line 36: the membership test
UCheck(t) ==
    /\ th[t].pc = "u_check"
    /\ IF HasKey(loaded_modules, th[t].name)
       THEN SetThread(t, [th[t] EXCEPT !.pc = "u_time"])
       ELSE Returned(t, "update_module_load_time", th[t].name, "ok")
    /\ UNCHANGED <<now, loaded_modules, gen>>
    /\ UNCHANGED main
    /\ UNCHANGED aside

\* line 37: the right-hand side time.time() is evaluated first
UTime(t) ==
    /\ th[t].pc = "u_time"
    /\ SetThread(t, [th[t] EXCEPT !.pc = "u_lookup", !.t = now])
    /\ UNCHANGED <<now, loaded_modules, gen>>
    /\ UNCHANGED main
    /\ UNCHANGED aside

\* line 37: loaded_modules[module_name] yields the object stored there now
ULookup(t) ==
    /\ th[t].pc = "u_lookup"
    /\ SetThread(t, [th[t] EXCEPT !.pc = "u_setattr", !.ref = gen[th[t].name]])
    /\ UNCHANGED <<now, loaded_modules, gen>>
    /\ UNCHANGED main
    /\ UNCHANGED aside

\* line 37: .load_time = ... is set on the object looked up; when another
\* thread has stored a new object under the name meanwhile, the registry's
\* entry is not the object written to
USetAttr(t) ==
    /\ th[t].pc = "u_setattr"
    /\ loaded_modules' = IF gen[th[t].name] = th[t].ref
                         THEN update_module_load_time(th[t].name, loaded_modules, th[t].t)
                         ELSE loaded_modules
    /\ Returned(t, "update_module_load_time", th[t].name, "ok")
    /\ UNCHANGED <<now, gen>>
    /\ UNCHANGED main
    /\ UNCHANGED aside

ClockTick ==
    /\ now < MaxTime
    /\ now' = now + 1
    /\ UNCHANGED <<loaded_modules, th, gen>>
    /\ UNCHANGED main
    /\ UNCHANGED aside

ConcNext ==
    \/ ClockTick
    \/ \E t \in Threads, f \in {"F1", "F2"}, n \in Names : TBegin(t, f, n)
    \/ \E t \in Threads : TCheck(t)
    \/ \E t \in Threads : TBuild(t)
    \/ \E t \in Threads : TStore(t)
    \/ \E t \in Threads, n \in Names : UBegin(t, n)
    \/ \E t \in Threads : UCheck(t)
    \/ \E t \in Threads : UTime(t)
    \/ \E t \in Threads : ULookup(t)
    \/ \E t \in Threads : USetAttr(t)

ConcSpec == Init /\ [][ConcNext]_vars

---------------------------------------------------------------------------
(* A thread that runs get_stale_modules while the worker threads call      *)
(* track_module.  The for statement of line 52 creates an iterator over    *)
(* the dict itself; each step below is one pass of the loop, and the other *)
(* threads can run between two passes.                                     *)

\* line 52: iter(loaded_modules.items()); the iterator remembers the size
\* the dict has now
ScanBegin ==
    /\ scan.pc # "loop"
    /\ scan' = [pc |-> "loop", used |-> Len(loaded_modules), i |-> 1,
                val |-> <<>>, exc |-> "ok"]
    /\ UNCHANGED <<now, loaded_modules, th, gen, view>>
    /\ UNCHANGED main

\* lines 52-57: the iterator is advanced and the loop body runs once.  The
\* iterator of a dict whose size is not the one it remembers raises
\* RuntimeError (dictionary changed size during iteration); this test comes
\* before the test for the end of the dict.
ScanStep ==
    /\ scan.pc = "loop"
    /\ scan' =
         IF Len(loaded_modules) # scan.used
         THEN [scan EXCEPT !.pc = "done", !.exc = "RuntimeError", !.val = <<>>]
         ELSE IF scan.i > Len(loaded_modules)
         THEN [scan EXCEPT !.pc = "done"]
         ELSE LET module_name == loaded_modules[scan.i].key
                  info == loaded_modules[scan.i].val
              IN  IF module_name \notin sys_modules
                  THEN [scan EXCEPT !.pc = "done", !.exc = "KeyError", !.val = <<>>]
                  ELSE LET file == module_file[module_name] IN
                       IF file = None
                       THEN [scan EXCEPT !.i = @ + 1]
                       ELSE IF ~fs[file].exists
                       THEN [scan EXCEPT !.pc = "done", !.exc = "FileNotFoundError",
                                         !.val = <<>>]
                       ELSE IF IsNewer(fs[file].mtime, info.load_time)
                       THEN [scan EXCEPT !.i = @ + 1, !.val = Append(@, module_name)]
                       ELSE [scan EXCEPT !.i = @ + 1]
    /\ UNCHANGED <<now, loaded_modules, th, gen, view>>
    /\ UNCHANGED main

\* B is the only module that can have a handle here (the threads call
\* track_module, nothing is imported), so b.py is the only file the scan reads.
ScanNext ==
    \/ ClockTick
    \/ ModifyFile("b.py")
    \/ ScanBegin
    \/ ScanStep
    \/ \E t \in Threads, f \in {"F1", "F2"}, n \in Names : TBegin(t, f, n)
    \/ \E t \in Threads : TCheck(t)
    \/ \E t \in Threads : TBuild(t)
    \/ \E t \in Threads : TStore(t)

ScanSpec == Init /\ [][ScanNext]_vars

---------------------------------------------------------------------------
(* Properties *)

LoadTime(n) == GetItem(loaded_modules, n).load_time

\* the tracked names that have a handle and a source file that exists and is
\* newer than the recorded load time
NewerOnDisk ==
    {n \in Keys(loaded_modules) :
        /\ n \in sys_modules
        /\ module_file[n] # None
        /\ fs[module_file[n]].exists
        /\ fs[module_file[n]].mtime > LoadTime(n)}

\* the registry with its entries in every other order
Reorderings(d) ==
    {[i \in DOMAIN d |-> d[q[i]]] :
        q \in {f \in [DOMAIN d -> DOMAIN d] : \A i, j \in DOMAIN d : f[i] = f[j] => i = j}}

StaleNow(n) == IsStale(n, loaded_modules, sys_modules, module_file, fs)

\* C1: when get_stale_modules returns, the names it returns are exactly the
\* tracked names whose file's mtime is strictly greater than the recorded
\* load time (less and equal are not reported), and the names returned are
\* the same for every order of the registry's entries.
C1_StaleIsStrictlyNewer ==
    (ret.op = "get_stale_modules" /\ ret.exc = "ok") =>
        /\ Range(ret.val) = NewerOnDisk
        /\ \A d \in Reorderings(loaded_modules) :
              Range(get_stale_modules(d, sys_modules, module_file, fs).val) = Range(ret.val)

\* get_stale_modules has returned with one module reported and another, whose
\* file's mtime equals its load time, not reported
C1_Witness ==
    /\ ret.op = "get_stale_modules" /\ ret.exc = "ok"
    /\ \E a, b \in Keys(loaded_modules) :
          /\ a \in Range(ret.val)
          /\ b \notin Range(ret.val)
          /\ b \in sys_modules /\ module_file[b] # None /\ fs[module_file[b]].exists
          /\ fs[module_file[b]].mtime = LoadTime(b)

\* C2: when reload_module(X) returns after re-executing an X that was stale
\* when the call began, X's load time is >= the mtime of its file and
\* get_stale_modules, called next, does not report X.
C2_ReloadClearsStale ==
    (ret.op = "reload_module" /\ ret.exc = "ok" /\ ret.ran /\ ret.was_stale) =>
        /\ HasKey(loaded_modules, ret.arg)
        /\ (ret.arg \in sys_modules /\ module_file[ret.arg] # None
              /\ fs[module_file[ret.arg]].exists)
           => LoadTime(ret.arg) >= fs[module_file[ret.arg]].mtime
        /\ ~StaleNow(ret.arg)

\* reload_module has returned for a module that was stale, and a scan of the
\* registry now completes and reads the module's file
C2_Witness ==
    /\ ret.op = "reload_module" /\ ret.exc = "ok" /\ ret.ran /\ ret.was_stale
    /\ get_stale_modules(loaded_modules, sys_modules, module_file, fs).exc = "ok"
    /\ ret.arg \in sys_modules /\ module_file[ret.arg] # None
    /\ fs[module_file[ret.arg]].exists
    /\ fs[module_file[ret.arg]].mtime > 0

\* C3: a find_spec (hence track_module) for a name that is already tracked
\* leaves the registry as it was: one entry for the name, with the load time
\* of the first call, however far the clock has advanced.
C3_TrackTwiceKeepsFirst ==
    [][(ret'.op = "find_spec" /\ HasKey(loaded_modules, ret'.arg)) =>
          /\ loaded_modules' = loaded_modules
          /\ Cardinality({i \in DOMAIN loaded_modules' :
                             loaded_modules'[i].key = ret'.arg}) = 1]_vars

\* find_spec has resolved a name whose entry was made at an earlier clock value
C3_Witness ==
    /\ ret.op = "find_spec" /\ ret.exc = "ok" /\ ret.spec # NoSpec
    /\ HasKey(loaded_modules, ret.arg)
    /\ LoadTime(ret.arg) < now

\* C4: a find_spec whose resolver result has no origin returns that result
\* without raising, and the registry has no entry for the name.
C4_NoOriginStillResolves ==
    (/\ ret.op = "find_spec"
     /\ Resolve(Tail(meta_path), ret.arg, fs) # NoSpec
     /\ Resolve(Tail(meta_path), ret.arg, fs).origin = None) =>
        /\ ret.exc = "ok"
        /\ ret.spec = Resolve(Tail(meta_path), ret.arg, fs)
        /\ ~HasKey(loaded_modules, ret.arg)

\* C5: when reload_stale_modules ends because the re-execution of one stale
\* module raised, every other module that was stale (and still has a handle)
\* has been re-executed and refreshed by the batch.
C5_BatchSurvivesFailure ==
    (ret.op = "reload_stale_modules" /\ ret.exc = "ExecError") =>
        \A b \in (Range(ret.val) \ {ret.arg}) \cap sys_modules : b \in Range(ret.done)

\* C6: a reload_module(X) of a tracked X that ends with the re-execution
\* raising leaves the registry unchanged, and an X that was stale before the
\* call is stale after it.
C6_FailedReloadKeepsEntry ==
    [][(ret'.op = "reload_module" /\ ret'.exc = "ExecError"
          /\ HasKey(loaded_modules, ret'.arg)) =>
          /\ loaded_modules' = loaded_modules
          /\ StaleNow(ret'.arg)
             => IsStale(ret'.arg, loaded_modules', sys_modules', module_file', fs')]_vars

\* reload_module has raised for a module that was stale and is still stale
C6_Witness ==
    /\ ret.op = "reload_module" /\ ret.exc = "ExecError" /\ ret.was_stale
    /\ StaleNow(ret.arg)

\* C7: under every interleaving of the threads the registry holds at most one
\* entry per name, exactly one for a name some thread's track_module has
\* returned for, and its length is the number of names tracked.
C7_OneEntryPerIdentity ==
    /\ \A n \in Names :
          Cardinality({i \in DOMAIN loaded_modules : loaded_modules[i].key = n}) <= 1
    /\ \A t \in Threads :
          (th[t].last.op = "track_module" /\ th[t].last.exc = "ok")
          => HasKey(loaded_modules, th[t].last.name)
    /\ Len(loaded_modules) = Cardinality(Keys(loaded_modules))

\* both threads have stored a record for the same name, which neither found
\* in the registry
C7_Witness ==
    \E n \in Names :
        /\ gen[n] = 2
        /\ \A t \in Threads :
              th[t].last = [op |-> "track_module", name |-> n, exc |-> "ok"]

\* C8: a track_module that stores its record when the name already has an
\* entry leaves that entry as it was.
C8_FirstWriterWins ==
    [][\A t \in Threads :
          (th[t].pc = "t_store" /\ th'[t].pc = "idle"
             /\ HasKey(loaded_modules, th[t].spec.name))
          => GetItem(loaded_modules', th[t].spec.name)
               = GetItem(loaded_modules, th[t].spec.name)]_vars

\* every tracked name with a handle has no file or a file that exists
FilesPresent ==
    \A n \in Keys(loaded_modules) \cap sys_modules :
        module_file[n] = None \/ fs[module_file[n]].exists

\* C9: with a tracked name that has no handle, get_stale_modules returns
\* without raising and reports exactly the stale names among the others.
C9_MissingHandleSkipped ==
    (/\ ret.op = "get_stale_modules"
     /\ \E n \in Keys(loaded_modules) : n \notin sys_modules
     /\ FilesPresent) =>
        /\ ret.exc = "ok"
        /\ Range(ret.val) = NewerOnDisk

\* C10: with a tracked module whose file has been deleted, get_stale_modules
\* returns without raising and reports exactly the stale names among the others.
C10_DeletedFileSkipped ==
    (/\ ret.op = "get_stale_modules"
     /\ Keys(loaded_modules) \subseteq sys_modules
     /\ ~FilesPresent) =>
        /\ ret.exc = "ok"
        /\ Range(ret.val) = NewerOnDisk

\* C11: find_spec returns, without raising, exactly what the first finder
\* after the interceptor that finds the name returns, and when none finds it
\* returns None and leaves the registry unchanged.
C11_InterceptorTransparent ==
    [][(ret'.op = "find_spec") =>
          /\ ret'.exc = "ok"
          /\ ret'.spec = Resolve(Tail(meta_path), ret'.arg, fs)
          /\ Resolve(Tail(meta_path), ret'.arg, fs) = NoSpec
             => loaded_modules' = loaded_modules]_vars

\* C12: reload_module of a name without a handle returns without executing
\* anything, creates no handle and leaves the registry unchanged;
\* update_module_load_time of an untracked name returns and changes nothing.
C12_NoHandleNoOp ==
    [][/\ (pc = "idle" /\ ret'.op = "reload_module" /\ ret'.arg \notin sys_modules) =>
             /\ ret'.exc = "ok" /\ ~ret'.ran /\ pc' = "idle"
             /\ sys_modules' = sys_modules /\ module_file' = module_file
             /\ loaded_modules' = loaded_modules
       /\ (pc = "idle" /\ ret'.op = "update_module_load_time"
             /\ ~HasKey(loaded_modules, ret'.arg)) =>
             /\ ret'.exc = "ok"
             /\ loaded_modules' = loaded_modules /\ sys_modules' = sys_modules]_vars

\* reload_module has returned for a tracked name that has no handle and whose
\* load time is older than the clock
C12_Witness ==
    /\ ret.op = "reload_module" /\ ret.exc = "ok" /\ ~ret.ran
    /\ ret.arg \notin sys_modules
    /\ HasKey(loaded_modules, ret.arg)
    /\ LoadTime(ret.arg) < now

\* C13: no step of the main thread lowers the load time of a tracked name.
C13_LoadTimeMonotone ==
    [][\A n \in Keys(loaded_modules) :
          /\ HasKey(loaded_modules', n)
          /\ GetItem(loaded_modules', n).load_time >= LoadTime(n)]_vars

\* update_module_load_time has returned for a tracked name at a clock value
\* later than the one of its registration, and the load time is that value
C13_Witness ==
    /\ ret.op = "update_module_load_time"
    /\ HasKey(loaded_modules, ret.arg)
    /\ LoadTime(ret.arg) = now /\ now > 0

C20_StaleNotStored ==
    [][(ret'.op = "get_stale_modules") =>
          /\ loaded_modules' = loaded_modules
          /\ (ret.op = "get_stale_modules") => (ret'.val = ret.val /\ ret'.exc = ret.exc)]_vars

\* get_stale_modules has returned a stale module, whose record still has the
\* load time that makes it stale
C20_Witness ==
    /\ ret.op = "get_stale_modules" /\ ret.exc = "ok" /\ ret.val # <<>>
    /\ \A n \in Range(ret.val) : fs[module_file[n]].mtime > LoadTime(n)

\* C16: when reload_module returns after the file of the module was written
\* between the re-execution and the refresh of the load time, and a scan at
\* that point completes, the scan reports the module as stale.
C16_NoModificationLost ==
    (/\ ret.op = "reload_module" /\ ret.exc = "ok" /\ ret.ran /\ ret.unseen
     /\ get_stale_modules(loaded_modules, sys_modules, module_file, fs).exc = "ok")
       => StaleNow(ret.arg)

\* C17: when an import or a reload_module has executed a module's code and
\* returned, the load time of the module is not later than the clock value at
\* which the execution finished.
C17_LoadTimeNotAfterExecution ==
    (/\ ret.op \in {"import", "reload_module"} /\ ret.exc = "ok" /\ ret.ran
     /\ HasKey(loaded_modules, ret.arg))
       => LoadTime(ret.arg) <= ret.exec_at

\* C14: what a caller reads through the value get_loaded_modules returned
\* is the content the registry had at the call, whatever track_module and
\* update_module_load_time have done to the registry since.
C14_ReturnedValueIsACopy ==
    (view.kind # "none") => (Seen(view) = view.at_call)

\* the finders of mp that come after the interceptor
AfterInterceptor(mp) ==
    SubSeq(mp, (CHOOSE i \in DOMAIN mp : mp[i] = CIF) + 1, Len(mp))

\* C19: wherever the interceptor stands in sys.meta_path, its find_spec
\* returns without calling itself (no RecursionError), and what it returns
\* is the answer of the finders that stand after it.
C19_DelegatesOnlyToLaterFinders ==
    (ret.op = "find_spec") =>
        /\ ret.exc # "RecursionError"
        /\ (ret.exc = "ok") => (ret.spec = Resolve(AfterInterceptor(meta_path), ret.arg, fs))

\* C18: a get_stale_modules that runs while other threads call track_module
\* never ends with the RuntimeError of a dict that changed size during the
\* iteration, and every record of the registry has its three fields set.
C18_ScanSurvivesInsertion ==
    /\ (scan.pc = "done") => (scan.exc # "RuntimeError")
    /\ \A i \in DOMAIN loaded_modules :
          /\ loaded_modules[i].val.module_name = loaded_modules[i].key
          /\ loaded_modules[i].val.path \in Paths
          /\ loaded_modules[i].val.load_time \in 0..now

====
